---- MODULE Spec2Model ----
(***************************************************************************)
(* Model of the observability package: the metric wrappers of              *)
(* src/observability/metrics.py (CounterMetric, HistogramMetric,           *)
(* GaugeMetric, UpDownCounterMetric), the MetricsManager registry and its  *)
(* setup / shutdown, together with the part of the OpenTelemetry SDK the   *)
(* wrappers delegate to (instrument registration, per-attribute-set        *)
(* aggregation, the periodic reader's collect and the provider's           *)
(* shutdown).  The SDK is modelled at its call sites with the behaviour of *)
(* its defaults: cumulative temporality, instruments deduplicated by       *)
(* (name, kind), add/collect serialised by the aggregation lock, a         *)
(* once-guard in MeterProvider.shutdown.                                   *)
(*                                                                         *)
(* The tracing side is src/observability/tracing.py (TracingManager and    *)
(* the spans start_span yields, over the SDK's per-thread context), and    *)
(* the life cycle of main() is src/app.py (ObservabilityDemo).             *)
(*                                                                         *)
(* The same actions are explored by several specifications, each over the  *)
(* inputs its properties are about: SpecRegistry (creation and lookup),    *)
(* SpecCounter, SpecGauge, SpecLifecycle (ticks and shutdown), SpecThreads *)
(* (concurrent record calls on one counter), SpecTracing (nested spans),   *)
(* SpecAttributes (span attributes), SpecPreSetup (calls before setup) and *)
(* SpecMain (main's setup, demo and shutdown).                             *)
(***************************************************************************)
EXTENDS Integers, Sequences, FiniteSets, TLC

\* ------------------------------------------------------------------ bounds
\* Wrappers created, record calls that return normally, export ticks and
\* provider shutdowns explored by each specification.
RegMaxObjs == 2
RegMaxRecords == 1
CtrMaxObjs == 2
CtrMaxRecords == 2
CtrMaxTicks == 1
GaugeMaxObjs == 1
GaugeMaxRecords == 2
GaugeMaxTicks == 1
LcMaxObjs == 2
LcMaxRecords == 1
LcMaxTicks == 1
LcMaxShutdowns == 2
\* Threads recording concurrently, records per thread, ticks next to them.
NThreads == 2
MIncr == 3
ThrMaxTicks == 2

\* ------------------------------------------------------- Python numbers
\* A Python number n is the pair hi * Base + lo, 0 <= lo < Base, so that
\* values beyond 32 bits (where float() stops being exact) can be written.
Base == 2^30

\* Significant bits of a Python float (IEEE-754 double).
MantissaBits == 53

Num(n) == IF n < 0 THEN [hi |-> -1, lo |-> Base + n] ELSE [hi |-> 0, lo |-> n]

\* 2^53 + 1: the smallest positive int that float() cannot represent.
BigInt == [hi |-> 2^23, lo |-> 1]

NumAdd(a, b) ==
    LET s == a.lo + b.lo
    IN  [hi |-> a.hi + b.hi + (s \div Base), lo |-> s % Base]

IsNeg(a) == a.hi < 0

NumNeg(a) ==
    IF a.lo = 0 THEN [hi |-> -a.hi, lo |-> 0]
    ELSE [hi |-> -a.hi - 1, lo |-> Base - a.lo]

NumLeq(a, b) == a.hi < b.hi \/ (a.hi = b.hi /\ a.lo <= b.lo)

RECURSIVE BitLen(_)
BitLen(n) == IF n = 0 THEN 0 ELSE 1 + BitLen(n \div 2)

\* Round a non-negative number to MantissaBits significant bits, ties to even.
RoundMag(a) ==
    LET n == IF a.hi = 0 THEN BitLen(a.lo) ELSE BitLen(a.hi) + 30
    IN  IF n <= MantissaBits THEN a
        ELSE LET p    == 2^(n - MantissaBits)
                 q    == a.lo \div p
                 r    == a.lo % p
                 half == p \div 2
                 up   == IF r > half \/ (r = half /\ q % 2 = 1) THEN 1 ELSE 0
                 lo2  == (q + up) * p
             IN  IF lo2 = Base THEN [hi |-> a.hi + 1, lo |-> 0]
                 ELSE [hi |-> a.hi, lo |-> lo2]

\* float(value) in GaugeMetric.record
Float(v) == IF IsNeg(v) THEN NumNeg(RoundMag(NumNeg(v))) ELSE RoundMag(v)

\* ------------------------------------------------------------- domains
Names == {"n1", "n2"}
Kinds == {"counter", "histogram", "gauge", "up_down_counter"}
SyncKinds == Kinds \ {"gauge"}
GaugeValues == {Num(-1), Num(1), BigInt}
CounterValues == {Num(-1), Num(0), Num(1)}
\* The attributes argument: None, or a dict.
AttrArgs == {"None", "GET", "POST"}
AttrSets == {"{}", "GET", "POST"}
SeriesKeys == Names \X SyncKinds \X AttrSets
NoData == [none |-> TRUE]

VARIABLES
    meter_provider,   \* MetricsManager._meter_provider: "None" or "set"
    meter,            \* MetricsManager._meter: "None" or "set"
    metrics,          \* MetricsManager._metrics: name -> wrapper id, 0 when absent
    objs,             \* the wrapper objects ever returned by create_*, by id
    sdkInstruments,   \* SDK meter: the registered instruments, <<name, kind>>
    sdkCallback,      \* SDK meter: gauge name -> wrapper whose callback is registered
    sdkSeries,        \* SDK aggregation: series -> [sum, count] or NoData
    sdkShutdown,      \* SDK provider: shut down
    shutdownCalls,    \* number of invocations of MeterProvider.shutdown
    flushes,          \* number of final collections done by a shutdown
    ticks,            \* number of periodic export ticks
    lastBatch,        \* the batch most recently handed to the exporter
    exported,         \* history: every export made, in order
    addCalls,         \* number of invocations of instrument.add / .record
    nrec,             \* number of record calls that returned normally
    recorded,         \* history: series -> sum of the values recorded normally
    written,          \* history: wrapper -> attrs -> latest gauge value written
    lastGauge,        \* history: wrapper -> value of its latest gauge record
    lastCall,         \* the latest call and its outcome
    addressed,        \* the name the latest call addressed a record to, or ""
    pc,               \* recording thread -> where it is in CounterMetric.record
    cnt,              \* recording thread -> record calls it has completed
    tracer_provider,  \* TracingManager._tracer_provider: "None" or "set"
    tracer,           \* TracingManager._tracer: "None" or "set"
    spans,            \* the spans ever started, by id
    current,          \* SDK context: thread -> its current span, 0 when none
    scopes,           \* thread -> its active `with start_span` blocks, innermost last
    raising,          \* thread -> an exception is propagating out of its blocks
    finished,         \* SDK span processor: the spans handed to on_end, in order
    tracerShutdowns,  \* number of invocations of TracerProvider.shutdown
    demo              \* ObservabilityDemo and main(): its fields, where main is

vars == <<meter_provider, meter, metrics, objs, sdkInstruments, sdkCallback,
          sdkSeries, sdkShutdown, shutdownCalls, flushes, ticks, lastBatch,
          exported, addCalls, nrec, recorded, written, lastGauge, lastCall,
          addressed, pc, cnt, tracer_provider, tracer, spans, current, scopes,
          raising, finished, tracerShutdowns, demo>>

traceVars == <<tracer_provider, tracer, spans, current, scopes, raising, finished,
               tracerShutdowns>>

\* Everything of the metrics side but the record of the latest call.
metricVars == <<meter_provider, meter, metrics, objs, sdkInstruments, sdkCallback,
                sdkSeries, sdkShutdown, shutdownCalls, flushes, ticks, lastBatch,
                exported, addCalls, nrec, recorded, written, lastGauge, addressed,
                pc, cnt>>

Threads == 1..NThreads

Call(op, obj, name, value, attrs, err) ==
    [op |-> op, obj |-> obj, name |-> name, value |-> value, attrs |-> attrs,
     err |-> err]

\* `attributes or {}`
OrEmpty(a) == IF a = "None" THEN "{}" ELSE a

\* TracingManager.__init__; no span, no context, no block entered.
InitTracing ==
    /\ tracer_provider = "None"
    /\ tracer = "None"
    /\ spans = << >>
    /\ current = [t \in Threads |-> 0]
    /\ scopes = [t \in Threads |-> << >>]
    /\ raising = [t \in Threads |-> FALSE]
    /\ finished = << >>
    /\ tracerShutdowns = 0

\* ObservabilityDemo.__init__, main() about to enter its try block.
InitDemo ==
    demo = [pc |-> "setup", metrics_manager |-> "None", tracing_manager |-> "None",
            started |-> FALSE, shutdowns |-> 0, failed |-> FALSE]

Init ==
    /\ InitTracing
    /\ InitDemo
    /\ meter_provider = "None"
    /\ meter = "None"
    /\ metrics = [n \in Names |-> 0]
    /\ objs = << >>
    /\ sdkInstruments = {}
    /\ sdkCallback = [n \in Names |-> 0]
    /\ sdkSeries = [k \in SeriesKeys |-> NoData]
    /\ sdkShutdown = FALSE
    /\ shutdownCalls = 0
    /\ flushes = 0
    /\ ticks = 0
    /\ lastBatch = NoData
    /\ exported = << >>
    /\ addCalls = 0
    /\ nrec = 0
    /\ recorded = [k \in SeriesKeys |-> NoData]
    /\ written = << >>
    /\ lastGauge = << >>
    /\ lastCall = Call("init", 0, "", NoData, "None", "none")
    /\ addressed = ""
    /\ pc = [t \in Threads |-> "idle"]
    /\ cnt = [t \in Threads |-> 0]

\* ------------------------------------------------ the SDK, at its call sites
Kind(o) == objs[o].kind

SeriesOf(o, a) == <<objs[o].name, objs[o].kind, OrEmpty(a)>>

\* meter.create_counter / create_histogram / create_up_down_counter /
\* create_observable_gauge: an instrument already registered under the same
\* name and kind is returned as it is, its callbacks kept.
SdkCreateInstrument(name, kind, o) ==
    /\ sdkInstruments' = sdkInstruments \cup {<<name, kind>>}
    /\ sdkCallback' = IF kind = "gauge" /\ <<name, kind>> \notin sdkInstruments
                      THEN [sdkCallback EXCEPT ![name] = o]
                      ELSE sdkCallback

\* The aggregation of one measurement into its series (under the SDK's lock).
Fold(series, key, v, isHist) ==
    LET old == series[key]
        s   == IF old = NoData THEN v ELSE NumAdd(old.sum, v)
        c   == IF ~isHist THEN 0 ELSE IF old = NoData THEN 1 ELSE old.count + 1
    IN  [series EXCEPT ![key] = [sum |-> s, count |-> c]]

\* Counter.add / UpDownCounter.add / Histogram.record of the SDK: a negative
\* amount on a Counter or a Histogram is logged and dropped.
SdkAdd(o, v, a) ==
    /\ addCalls' = addCalls + 1
    /\ sdkSeries' = IF Kind(o) \in {"counter", "histogram"} /\ IsNeg(v)
                    THEN sdkSeries
                    ELSE Fold(sdkSeries, SeriesOf(o, a), v, Kind(o) = "histogram")

\* get_current_value, the callback GaugeMetric.create_instrument registers.
GaugeCallback(o) == objs[o].current_value

\* What a collection reads: every series with data, and one observation,
\* without attributes, per registered gauge callback.
Snapshot ==
    [series |-> sdkSeries,
     gauges |-> [n \in Names |-> IF sdkCallback[n] = 0 THEN NoData
                                 ELSE GaugeCallback(sdkCallback[n])]]

\* ------------------------------------------------------ the metric wrappers
CounterRecordUnchecked(o, v, a) ==
    /\ SdkAdd(o, v, a)
    /\ lastCall' = Call("record", o, objs[o].name, v, a, "none")
    /\ UNCHANGED objs

CounterRecordDropsAttributes(o, v, a) ==
    IF ~objs[o].instrument
    THEN /\ lastCall' = Call("record", o, objs[o].name, v, a, "RuntimeError")
         /\ UNCHANGED <<objs, sdkSeries, addCalls>>
    ELSE IF IsNeg(v)
    THEN /\ lastCall' = Call("record", o, objs[o].name, v, a, "ValueError")
         /\ UNCHANGED <<objs, sdkSeries, addCalls>>
    ELSE /\ SdkAdd(o, v, "None")
         /\ lastCall' = Call("record", o, objs[o].name, v, a, "none")
         /\ UNCHANGED objs

\* CounterMetric.record
CounterRecord(o, v, a) ==
    IF ~objs[o].instrument
    THEN /\ lastCall' = Call("record", o, objs[o].name, v, a, "RuntimeError")
         /\ UNCHANGED <<objs, sdkSeries, addCalls>>
    ELSE IF IsNeg(v)
    THEN /\ lastCall' = Call("record", o, objs[o].name, v, a, "ValueError")
         /\ UNCHANGED <<objs, sdkSeries, addCalls>>
    ELSE /\ SdkAdd(o, v, a)
         /\ lastCall' = Call("record", o, objs[o].name, v, a, "none")
         /\ UNCHANGED objs

\* HistogramMetric.record
HistogramRecord(o, v, a) ==
    IF ~objs[o].instrument
    THEN /\ lastCall' = Call("record", o, objs[o].name, v, a, "RuntimeError")
         /\ UNCHANGED <<objs, sdkSeries, addCalls>>
    ELSE /\ SdkAdd(o, v, a)
         /\ lastCall' = Call("record", o, objs[o].name, v, a, "none")
         /\ UNCHANGED objs

\* UpDownCounterMetric.record
UpDownCounterRecord(o, v, a) ==
    IF ~objs[o].instrument
    THEN /\ lastCall' = Call("record", o, objs[o].name, v, a, "RuntimeError")
         /\ UNCHANGED <<objs, sdkSeries, addCalls>>
    ELSE /\ SdkAdd(o, v, a)
         /\ lastCall' = Call("record", o, objs[o].name, v, a, "none")
         /\ UNCHANGED objs

GaugeRecordAccumulates(o, v, a) ==
    /\ objs' = [objs EXCEPT ![o].current_value = NumAdd(@, Float(v))]
    /\ lastCall' = Call("record", o, objs[o].name, v, a, "none")
    /\ UNCHANGED <<sdkSeries, addCalls>>

\* GaugeMetric.record: the attributes are not used.
GaugeRecord(o, v, a) ==
    /\ objs' = [objs EXCEPT ![o].current_value = Float(v)]
    /\ lastCall' = Call("record", o, objs[o].name, v, a, "none")
    /\ UNCHANGED <<sdkSeries, addCalls>>

\* GaugeMetric.get_value
GetValue(o) == objs[o].current_value

\* BaseMetric.record, dispatched on the wrapper's class; then the history
\* of what the caller was told.
RecordOn(o, v, a) ==
    /\ CASE Kind(o) = "counter" -> CounterRecord(o, v, a)
         [] Kind(o) = "histogram" -> HistogramRecord(o, v, a)
         [] Kind(o) = "gauge" -> GaugeRecord(o, v, a)
         [] Kind(o) = "up_down_counter" -> UpDownCounterRecord(o, v, a)
    /\ LET ok == lastCall'.err = "none"
           k  == SeriesOf(o, a)
       IN  /\ nrec' = IF ok THEN nrec + 1 ELSE nrec
           /\ recorded' = IF ok /\ Kind(o) # "gauge"
                          THEN Fold(recorded, k, v, Kind(o) = "histogram")
                          ELSE recorded
           /\ written' = IF ok /\ Kind(o) = "gauge"
                         THEN [written EXCEPT ![o][OrEmpty(a)] = v]
                         ELSE written
           /\ lastGauge' = IF ok /\ Kind(o) = "gauge"
                           THEN [lastGauge EXCEPT ![o] = v]
                           ELSE lastGauge
    /\ UNCHANGED <<meter_provider, meter, metrics, sdkInstruments, sdkCallback,
                   sdkShutdown, shutdownCalls, flushes, ticks, lastBatch, exported>>

\* ------------------------------------------------------- MetricsManager
\* MetricsManager.setup, called once by ObservabilityDemo.setup.
Setup ==
    /\ meter_provider = "None"
    /\ meter_provider' = "set"
    /\ meter' = "set"
    /\ lastCall' = Call("setup", 0, "", NoData, "None", "none")
    /\ UNCHANGED <<metrics, objs, sdkInstruments, sdkCallback, sdkSeries,
                   sdkShutdown, shutdownCalls, flushes, ticks, lastBatch, exported,
                   addCalls, nrec, recorded, written, lastGauge>>

\* MetricsManager.setup interrupted by an exception: before the provider is
\* assigned, or after it (the meter is assigned last).
SetupFails(after) ==
    /\ meter_provider = "None"
    /\ meter_provider' = IF after THEN "set" ELSE "None"
    /\ lastCall' = Call("setup", 0, "", NoData, "None", "Exception")
    /\ UNCHANGED <<meter, metrics, objs, sdkInstruments, sdkCallback, sdkSeries,
                   sdkShutdown, shutdownCalls, flushes, ticks, lastBatch,
                   exported, addCalls, nrec, recorded, written, lastGauge>>

NewMetric(name, kind) ==
    [kind |-> kind, name |-> name, instrument |-> TRUE, current_value |-> Num(0)]

\* self._metrics[name] = metric
Register(name, o) == [metrics EXCEPT ![name] = o]

\* MetricsManager.get_meter
get_meter ==
    /\ lastCall' = Call("get_meter", 0, "", NoData, "None",
                         IF meter = "None" THEN "RuntimeError" ELSE "none")
    /\ UNCHANGED <<meter_provider, meter, metrics, objs, sdkInstruments,
                   sdkCallback, sdkSeries, sdkShutdown, shutdownCalls, flushes,
                   ticks, lastBatch, exported, addCalls, nrec, recorded, written,
                   lastGauge>>

\* A create that enters the wrapper in the registry before it creates the
\* instrument: a failure of get_meter() leaves the name registered.
CreateRegistersFirst(name, kind) ==
    /\ LET o == Len(objs) + 1
       IN  /\ objs' = Append(objs, [NewMetric(name, kind) EXCEPT
                                       !.instrument = meter # "None"])
           /\ written' = Append(written, [a \in AttrSets |-> NoData])
           /\ lastGauge' = Append(lastGauge, NoData)
           /\ metrics' = Register(name, o)
           /\ IF meter = "None"
              THEN /\ lastCall' = Call("create", 0, name, NoData, kind, "RuntimeError")
                   /\ UNCHANGED <<sdkInstruments, sdkCallback>>
              ELSE /\ SdkCreateInstrument(name, kind, o)
                   /\ lastCall' = Call("create", o, name, NoData, kind, "none")
    /\ UNCHANGED <<meter_provider, meter, sdkSeries, sdkShutdown, shutdownCalls,
                   flushes, ticks, lastBatch, exported, addCalls, nrec, recorded>>

\* MetricsManager.create_counter / create_histogram / create_gauge /
\* create_up_down_counter: construct the wrapper, create its instrument on
\* get_meter() (which raises before setup), register it under its name.
Create(name, kind) ==
    /\ IF meter = "None"
       THEN /\ lastCall' = Call("create", 0, name, NoData, kind, "RuntimeError")
            /\ UNCHANGED <<metrics, objs, sdkInstruments, sdkCallback, written,
                           lastGauge>>
       ELSE LET o == Len(objs) + 1
            IN  /\ objs' = Append(objs, NewMetric(name, kind))
                /\ written' = Append(written, [a \in AttrSets |-> NoData])
                /\ lastGauge' = Append(lastGauge, NoData)
                /\ SdkCreateInstrument(name, kind, o)
                /\ metrics' = Register(name, o)
                /\ lastCall' = Call("create", o, name, NoData, kind, "none")
    /\ UNCHANGED <<meter_provider, meter, sdkSeries, sdkShutdown, shutdownCalls,
                   flushes, ticks, lastBatch, exported, addCalls, nrec, recorded>>

create_counter(name) == Create(name, "counter")
create_histogram(name) == Create(name, "histogram")
create_gauge(name) == Create(name, "gauge")
create_up_down_counter(name) == Create(name, "up_down_counter")

GetMetricFirstObject(name) == IF Len(objs) > 0 THEN 1 ELSE 0

\* MetricsManager.get_metric: self._metrics.get(name), None (0) when absent.
GetMetric(name) == metrics[name]

\* MetricsManager.list_metrics: a copy of the registry, name -> wrapper.
ListMetrics == [n \in {x \in Names : metrics[x] # 0} |-> metrics[n]]

get_metric(name) ==
    /\ lastCall' = Call("get_metric", GetMetric(name), name, NoData, "None", "none")
    /\ UNCHANGED <<meter_provider, meter, metrics, objs, sdkInstruments,
                   sdkCallback, sdkSeries, sdkShutdown, shutdownCalls, flushes,
                   ticks, lastBatch, exported, addCalls, nrec, recorded, written, lastGauge>>

\* A record through a wrapper the caller holds (demo_counter.record(...)).
Record(o, v, a) ==
    /\ o \in 1..Len(objs)
    /\ RecordOn(o, v, a)

\* A record addressed by name: get_metric(name).record(value, attributes).
\* On a name that is not registered get_metric returns None and the call on
\* it raises AttributeError.
RecordByName(name, v, a) ==
    IF GetMetric(name) = 0
    THEN /\ lastCall' = Call("record", 0, name, v, a, "AttributeError")
         /\ UNCHANGED <<meter_provider, meter, metrics, objs, sdkInstruments,
                        sdkCallback, sdkSeries, sdkShutdown, shutdownCalls,
                        flushes, ticks, lastBatch, exported, addCalls, nrec, recorded,
                        written, lastGauge>>
    ELSE RecordOn(GetMetric(name), v, a)

\* The batch a collection hands to the exporter, and the exporter's outcome.
Batch(ok, final) == [data |-> Snapshot, ok |-> ok, final |-> final]

\* What is kept of an export: its outcome, and how many record calls had
\* returned when its batch was collected.
Exported(b) == [ok |-> b.ok, final |-> b.final, returned |-> nrec]

\* A reader that keeps a failed batch and sends it again on the next tick.
ExportTickReplays(ok) ==
    /\ meter_provider = "set"
    /\ ~sdkShutdown
    /\ ticks' = ticks + 1
    /\ lastBatch' = IF lastBatch # NoData /\ ~lastBatch.ok
                     THEN [lastBatch EXCEPT !.ok = ok]
                     ELSE Batch(ok, FALSE)
    /\ exported' = Append(exported, Exported(lastBatch'))
    /\ lastCall' = Call("tick", 0, "", NoData, "None", "none")
    /\ UNCHANGED <<meter_provider, meter, metrics, objs, sdkInstruments,
                   sdkCallback, sdkSeries, sdkShutdown, shutdownCalls, flushes,
                   addCalls, nrec, recorded, written, lastGauge>>

\* One tick of the PeriodicExportingMetricReader setup() starts: collect and
\* hand the batch to the exporter once.  The exporter succeeds or fails; the
\* reader logs a failure and goes on waiting for the next tick.
ExportTick(ok) ==
    /\ meter_provider = "set"
    /\ ~sdkShutdown
    /\ ticks' = ticks + 1
    /\ lastBatch' = Batch(ok, FALSE)
    /\ exported' = Append(exported, Exported(lastBatch'))
    /\ lastCall' = Call("tick", 0, "", NoData, "None", "none")
    /\ UNCHANGED <<meter_provider, meter, metrics, objs, sdkInstruments,
                   sdkCallback, sdkSeries, sdkShutdown, shutdownCalls, flushes,
                   addCalls, nrec, recorded, written, lastGauge>>

\* MeterProvider.shutdown: the first call stops the reader, which collects
\* and exports one last time; a later call only logs a warning.
SdkShutdown ==
    /\ shutdownCalls' = shutdownCalls + 1
    /\ IF sdkShutdown
       THEN UNCHANGED <<sdkShutdown, flushes, lastBatch, exported>>
       ELSE /\ sdkShutdown' = TRUE
            /\ flushes' = flushes + 1
            /\ \E ok \in BOOLEAN : lastBatch' = Batch(ok, TRUE)
            /\ exported' = Append(exported, Exported(lastBatch'))

ManagerShutdownFlushesFirst ==
    IF meter_provider = "set"
    THEN /\ shutdownCalls' = shutdownCalls + 1
         /\ sdkShutdown' = TRUE
         /\ flushes' = flushes + 1
         /\ \E ok \in BOOLEAN : lastBatch' = Batch(ok, TRUE)
         /\ exported' = Append(exported, Exported(lastBatch'))
    ELSE UNCHANGED <<sdkShutdown, shutdownCalls, flushes, lastBatch, exported>>

\* MetricsManager.shutdown
ManagerShutdown ==
    IF meter_provider = "set"
    THEN SdkShutdown
    ELSE UNCHANGED <<sdkShutdown, shutdownCalls, flushes, lastBatch, exported>>

Shutdown ==
    /\ ManagerShutdown
    /\ lastCall' = Call("shutdown", 0, "", NoData, "None", "none")
    /\ UNCHANGED <<meter_provider, meter, metrics, objs, sdkInstruments,
                   sdkCallback, sdkSeries, ticks, addCalls, nrec, recorded,
                   written, lastGauge>>

\* ------------------------------------------------------------ the callers
CreateKind(n, k) ==
    CASE k = "counter" -> create_counter(n)
      [] k = "histogram" -> create_histogram(n)
      [] k = "gauge" -> create_gauge(n)
      [] k = "up_down_counter" -> create_up_down_counter(n)

\* The calls below are made by the main thread alone, and are calls on the
\* MetricsManager and its wrappers: nothing of the tracing side is touched.
Sequential == UNCHANGED <<pc, cnt>> /\ UNCHANGED traceVars /\ UNCHANGED demo

\* A call that goes through a wrapper or the manager, not through a name.
Direct == addressed' = ""

Creates(N, K, maxObjs) ==
    \E n \in N, k \in K : Len(objs) < maxObjs /\ CreateKind(n, k) /\ Sequential /\ Direct

Lookups(N) == \E n \in N : get_metric(n) /\ Sequential /\ Direct

Records(V, A, maxRec) ==
    \E o \in 1..Len(objs), v \in V, a \in A :
        /\ Record(o, v, a)
        /\ nrec < maxRec \/ lastCall'.err # "none"
        /\ Sequential /\ Direct

RecordsByName(N, V, A, maxRec) ==
    \E n \in N, v \in V, a \in A :
        /\ RecordByName(n, v, a)
        /\ nrec < maxRec \/ lastCall'.err # "none"
        /\ Sequential
        /\ addressed' = n

\* The reader's ticker runs in a thread of its own.
Exports(maxTicks) ==
    \E ok \in BOOLEAN : ticks < maxTicks /\ ExportTick(ok) /\ Direct
                        /\ UNCHANGED <<pc, cnt>> /\ UNCHANGED traceVars
                        /\ UNCHANGED demo

Shutdowns(maxCalls) ==
    shutdownCalls < maxCalls /\ Shutdown /\ Sequential /\ Direct

Setups == Setup /\ Sequential /\ Direct

\* The registry: every kind under two names, looked up and recorded by name.
NextRegistry ==
    \/ Setups
    \/ Creates(Names, Kinds, RegMaxObjs)
    \/ Lookups(Names)
    \/ RecordsByName(Names, {Num(1)}, {"None"}, RegMaxRecords)

SpecRegistry == Init /\ [][NextRegistry]_vars

\* Counters: every value and attribute argument, with export ticks between.
NextCounter ==
    \/ Setups
    \/ Creates({"n1"}, {"counter"}, CtrMaxObjs)
    \/ Records(CounterValues, AttrArgs, CtrMaxRecords)
    \/ Exports(CtrMaxTicks)

SpecCounter == Init /\ [][NextCounter]_vars

\* Gauges: every value, among them one float() cannot represent.
NextGauge ==
    \/ Setups
    \/ Creates({"n1"}, {"gauge"}, GaugeMaxObjs)
    \/ Records(GaugeValues, AttrArgs, GaugeMaxRecords)
    \/ Exports(GaugeMaxTicks)

SpecGauge == Init /\ [][NextGauge]_vars

\* The life cycle: a counter, a histogram and a gauge under one name, ticks,
\* and shutdown called more than once.
LcKinds == {"counter", "histogram", "gauge"}

NextLifecycle ==
    \/ Setups
    \/ Creates({"n1"}, LcKinds, LcMaxObjs)
    \/ Records({Num(-1), Num(1)}, {"GET"}, LcMaxRecords)
    \/ Exports(LcMaxTicks)
    \/ Shutdowns(LcMaxShutdowns)

SpecLifecycle == Init /\ [][NextLifecycle]_vars

\* ------------------------------------------------------------- threads
\* N threads each call record(1, {GET}) MIncr times on the one counter the
\* main thread created before starting them.
ThreadValue == Num(1)
ThreadAttrs == "GET"

InitThreads ==
    /\ InitTracing
    /\ InitDemo
    /\ meter_provider = "set"
    /\ meter = "set"
    /\ metrics = [n \in Names |-> IF n = "n1" THEN 1 ELSE 0]
    /\ objs = <<NewMetric("n1", "counter")>>
    /\ sdkInstruments = {<<"n1", "counter">>}
    /\ sdkCallback = [n \in Names |-> 0]
    /\ sdkSeries = [k \in SeriesKeys |-> NoData]
    /\ sdkShutdown = FALSE
    /\ shutdownCalls = 0
    /\ flushes = 0
    /\ ticks = 0
    /\ lastBatch = NoData
    /\ exported = << >>
    /\ addCalls = 0
    /\ nrec = 0
    /\ recorded = [k \in SeriesKeys |-> NoData]
    /\ written = <<[a \in AttrSets |-> NoData]>>
    /\ lastGauge = <<NoData>>
    /\ lastCall = Call("create", 1, "n1", NoData, "counter", "none")
    /\ addressed = ""
    /\ pc = [t \in Threads |-> "idle"]
    /\ cnt = [t \in Threads |-> 0]

\* CounterMetric.record up to the call of add: the two checks, which read
\* nothing another thread writes.
ThreadEnter(t) ==
    /\ pc[t] = "idle"
    /\ cnt[t] < MIncr
    /\ pc' = [pc EXCEPT ![t] = IF ~objs[1].instrument \/ IsNeg(ThreadValue)
                                THEN "raised" ELSE "add"]
    /\ UNCHANGED <<meter_provider, meter, metrics, objs, sdkInstruments,
                   sdkCallback, sdkSeries, sdkShutdown, shutdownCalls, flushes,
                   ticks, lastBatch, exported, addCalls, nrec, recorded, written,
                   lastGauge, lastCall, addressed, cnt>>
    /\ UNCHANGED traceVars
    /\ UNCHANGED demo

\* The history of a record call that returned.
Returned(t) ==
    /\ cnt' = [cnt EXCEPT ![t] = @ + 1]
    /\ nrec' = nrec + 1
    /\ recorded' = Fold(recorded, SeriesOf(1, ThreadAttrs), ThreadValue, FALSE)

\* A read-modify-write without the lock: two threads in add at once both
\* return, and one increment is kept.
ThreadAddRacy(t) ==
    /\ pc[t] = "add"
    /\ SdkAdd(1, ThreadValue, ThreadAttrs)
    /\ lastCall' = Call("record", 1, objs[1].name, ThreadValue, ThreadAttrs, "none")
    /\ \E u \in Threads :
          /\ u = t \/ pc[u] = "add"
          /\ cnt' = [x \in Threads |-> IF x \in {t, u} THEN cnt[x] + 1 ELSE cnt[x]]
          /\ pc' = [x \in Threads |->
                       IF x \in {t, u}
                       THEN (IF cnt[x] + 1 = MIncr THEN "done" ELSE "idle")
                       ELSE pc[x]]
          /\ nrec' = nrec + Cardinality({t, u})
          /\ recorded' = IF u = t
                THEN Fold(recorded, SeriesOf(1, ThreadAttrs), ThreadValue, FALSE)
                ELSE Fold(Fold(recorded, SeriesOf(1, ThreadAttrs), ThreadValue, FALSE),
                          SeriesOf(1, ThreadAttrs), ThreadValue, FALSE)
    /\ UNCHANGED <<meter_provider, meter, metrics, objs, sdkInstruments,
                   sdkCallback, sdkShutdown, shutdownCalls, flushes, ticks,
                   lastBatch, exported, written, lastGauge, addressed>>
    /\ UNCHANGED traceVars
    /\ UNCHANGED demo

\* self._instrument.add(value, attributes=attributes or {}): the SDK folds
\* the measurement into its series under the aggregation's lock, and the
\* call returns.
ThreadAdd(t) ==
    /\ pc[t] = "add"
    /\ SdkAdd(1, ThreadValue, ThreadAttrs)
    /\ lastCall' = Call("record", 1, objs[1].name, ThreadValue, ThreadAttrs, "none")
    /\ Returned(t)
    /\ pc' = [pc EXCEPT ![t] = IF cnt[t] + 1 = MIncr THEN "done" ELSE "idle"]
    /\ UNCHANGED <<meter_provider, meter, metrics, objs, sdkInstruments,
                   sdkCallback, sdkShutdown, shutdownCalls, flushes, ticks,
                   lastBatch, exported, written, lastGauge, addressed>>
    /\ UNCHANGED traceVars
    /\ UNCHANGED demo

NextThreads ==
    \/ \E t \in Threads : ThreadEnter(t)
    \/ \E t \in Threads : ThreadAdd(t)
    \/ Exports(ThrMaxTicks)

SpecThreads == InitThreads /\ [][NextThreads]_vars

\* ------------------------------------------------------------- tracing
SpanNames == {"counter_demo"}
AttrKeys == {"events_generated"}
TrMaxSpans == 3
AttrMaxSpans == 2

\* TracingManager.setup, called once by ObservabilityDemo.setup.
TracingSetup ==
    /\ tracer_provider = "None"
    /\ tracer_provider' = "set"
    /\ tracer' = "set"
    /\ lastCall' = Call("tracing_setup", 0, "", NoData, "None", "none")
    /\ UNCHANGED <<spans, current, scopes, raising, finished, tracerShutdowns>>

\* The span tracer.start_as_current_span creates: its parent is the span
\* the calling thread's context holds.
NewSpan(name, t) ==
    [name |-> name, thread |-> t, parent |-> current[t], open |-> TRUE,
     attrs |-> {}, error |-> FALSE]

Top(t) == scopes[t][Len(scopes[t])]

\* Entering `with tracing_manager.start_span(name) as span`: get_tracer()
\* raises before setup; otherwise the span is started, made the current
\* span of the thread's context (the token keeps what was current before)
\* and yielded to the block.
StartSpan(t, name) ==
    /\ ~raising[t]
    /\ IF tracer = "None"
       THEN /\ lastCall' = Call("start_span", 0, name, NoData, "None", "RuntimeError")
            /\ UNCHANGED <<spans, current, scopes>>
       ELSE LET s == Len(spans) + 1
            IN  /\ spans' = Append(spans, NewSpan(name, t))
                /\ scopes' = [scopes EXCEPT
                                 ![t] = Append(@, [span |-> s, token |-> current[t]])]
                /\ current' = [current EXCEPT ![t] = s]
                /\ lastCall' = Call("start_span", s, name, NoData, "None", "none")
    /\ UNCHANGED <<tracer_provider, tracer, raising, finished, tracerShutdowns>>

\* A context manager written as `yield span` followed by `span.end()`,
\* without try/finally: an exception in the block skips what follows.
ExitSpanNoFinally(t) ==
    /\ scopes[t] # << >>
    /\ LET f == Top(t)
       IN  /\ scopes' = [scopes EXCEPT ![t] = SubSeq(@, 1, Len(@) - 1)]
           /\ current' = IF raising[t] THEN current
                          ELSE [current EXCEPT ![t] = f.token]
           /\ spans' = IF raising[t] THEN spans
                        ELSE [spans EXCEPT ![f.span].open = FALSE]
           /\ finished' = IF spans[f.span].open /\ ~raising[t]
                           THEN Append(finished, f.span) ELSE finished
           /\ lastCall' = Call("exit_span", f.span, spans[f.span].name, NoData,
                                "None", IF raising[t] THEN "raised" ELSE "none")
    /\ UNCHANGED <<tracer_provider, tracer, raising, tracerShutdowns>>

\* Leaving the innermost `with start_span` block of a thread, normally or
\* with an exception propagating: the inner `with start_as_current_span`
\* resets the context to the token, marks the span on an exception, ends it
\* (Span.end hands it to the processor once) and lets the exception go on.
ExitSpan(t) ==
    /\ scopes[t] # << >>
    /\ LET f == Top(t)
       IN  /\ scopes' = [scopes EXCEPT ![t] = SubSeq(@, 1, Len(@) - 1)]
           /\ current' = [current EXCEPT ![t] = f.token]
           /\ spans' = [spans EXCEPT
                          ![f.span] = [@ EXCEPT !.open = FALSE,
                                                !.error = @ \/ (spans[f.span].open
                                                                /\ raising[t])]]
           /\ finished' = IF spans[f.span].open
                           THEN Append(finished, f.span) ELSE finished
           /\ lastCall' = Call("exit_span", f.span, spans[f.span].name, NoData,
                                "None", IF raising[t] THEN "raised" ELSE "none")
    /\ UNCHANGED <<tracer_provider, tracer, raising, tracerShutdowns>>

\* The body of the innermost block raises.
Raise(t) ==
    /\ scopes[t] # << >>
    /\ ~raising[t]
    /\ raising' = [raising EXCEPT ![t] = TRUE]
    /\ lastCall' = Call("raise", Top(t).span, "", NoData, "None", "raised")
    /\ UNCHANGED <<tracer_provider, tracer, spans, current, scopes, finished,
                   tracerShutdowns>>

\* An except clause around the blocks left so far catches the exception
\* (run_demo's `except Exception`).
Catch(t) ==
    /\ raising[t]
    /\ raising' = [raising EXCEPT ![t] = FALSE]
    /\ lastCall' = Call("except", 0, "", NoData, "None", "none")
    /\ UNCHANGED <<tracer_provider, tracer, spans, current, scopes, finished,
                   tracerShutdowns>>

\* TracingManager.get_tracer
get_tracer ==
    /\ lastCall' = Call("get_tracer", 0, "", NoData, "None",
                         IF tracer = "None" THEN "RuntimeError" ELSE "none")
    /\ UNCHANGED traceVars

\* TracingManager.setup interrupted by an exception: before the provider is
\* assigned, or after it (the tracer is assigned last).
TracingSetupFails(after) ==
    /\ tracer_provider = "None"
    /\ tracer_provider' = IF after THEN "set" ELSE "None"
    /\ lastCall' = Call("tracing_setup", 0, "", NoData, "None", "Exception")
    /\ UNCHANGED <<tracer, spans, current, scopes, raising, finished,
                   tracerShutdowns>>

\* TracingManager.shutdown
TracingShutdown ==
    /\ tracerShutdowns' = IF tracer_provider = "set" THEN tracerShutdowns + 1
                           ELSE tracerShutdowns
    /\ lastCall' = Call("tracing_shutdown", 0, "", NoData, "None", "none")
    /\ UNCHANGED <<tracer_provider, tracer, spans, current, scopes, raising,
                   finished>>

\* span.set_attribute(key, value) on a span the caller was yielded: the SDK
\* stores the attribute while the span has no end time; on an ended span it
\* logs a warning and returns.
SetAttribute(s, k) ==
    /\ spans' = IF spans[s].open
                 THEN [spans EXCEPT ![s].attrs = @ \cup {k}]
                 ELSE spans
    /\ lastCall' = Call("set_attribute", s, spans[s].name, NoData, k, "none")
    /\ UNCHANGED <<tracer_provider, tracer, current, scopes, raising, finished,
                   tracerShutdowns>>

\* Calls on the TracingManager and on spans: nothing of the metrics side is
\* touched.
TracingSetups == TracingSetup /\ UNCHANGED metricVars /\ UNCHANGED demo

StartSpans(maxSpans) ==
    \E t \in Threads, n \in SpanNames :
        /\ Len(spans) < maxSpans
        /\ StartSpan(t, n)
        /\ UNCHANGED metricVars /\ UNCHANGED demo

ExitSpans == \E t \in Threads : ExitSpan(t) /\ UNCHANGED metricVars /\ UNCHANGED demo

Raises == \E t \in Threads : Raise(t) /\ UNCHANGED metricVars /\ UNCHANGED demo

Catches == \E t \in Threads : Catch(t) /\ UNCHANGED metricVars /\ UNCHANGED demo

SetAttributes ==
    \E s \in 1..Len(spans), k \in AttrKeys :
        SetAttribute(s, k) /\ UNCHANGED metricVars /\ UNCHANGED demo

\* Spans: blocks entered, nested and left by each thread, normally or by
\* an exception.
NextTracing ==
    \/ TracingSetups
    \/ StartSpans(TrMaxSpans)
    \/ ExitSpans
    \/ Raises
    \/ Catches

SpecTracing == Init /\ [][NextTracing]_vars

\* Before and after setup: the calls that need the meter or the tracer,
\* made in any order with the two setups.
PreMaxObjs == 1
PreMaxSpans == 1

GetMeters == get_meter /\ Sequential /\ Direct

GetTracers == get_tracer /\ UNCHANGED metricVars /\ UNCHANGED demo

NextPreSetup ==
    \/ Setups
    \/ TracingSetups
    \/ Creates(Names, Kinds, PreMaxObjs)
    \/ Lookups(Names)
    \/ GetMeters
    \/ GetTracers
    \/ StartSpans(PreMaxSpans)
    \/ ExitSpans

SpecPreSetup == Init /\ [][NextPreSetup]_vars

\* Span attributes: set on any span ever yielded, open or ended.
NextAttributes ==
    \/ TracingSetups
    \/ StartSpans(AttrMaxSpans)
    \/ ExitSpans
    \/ Raises
    \/ SetAttributes

SpecAttributes == Init /\ [][NextAttributes]_vars

\* ------------------------------------------------------ main() and the demo
\* main(): try: demo.setup(); demo.run_demo(type) finally: demo.shutdown().
\* The main thread is thread 1; the thread run_comprehensive_demo starts to
\* run simulate_web_server_metrics is thread 2 and records on the
\* request counter, the first instrument MetricsExamples creates.
MainThread == 1
WebThread == 2
MainMaxRecords == 1
SetupOutcomes == {"ok", "before", "after"}

\* What a main-thread call on the metrics side leaves alone.
MainMetrics == UNCHANGED <<pc, cnt>> /\ UNCHANGED traceVars /\ Direct

\* What a main-thread call on the tracing side leaves alone.
MainTracing == UNCHANGED metricVars

\* An exception before ObservabilityDemo.setup has assigned metrics_manager.
DemoSetupInterrupted ==
    /\ demo.pc = "setup"
    /\ demo' = [demo EXCEPT !.pc = "finally", !.failed = TRUE]
    /\ lastCall' = Call("demo_setup", 0, "", NoData, "None", "Exception")
    /\ UNCHANGED metricVars /\ UNCHANGED traceVars

\* ObservabilityDemo.setup: self.metrics_manager = MetricsManager(config);
\* self.metrics_manager.setup()
DemoSetupMetrics(outcome) ==
    /\ demo.pc = "setup"
    /\ IF outcome = "ok" THEN Setup ELSE SetupFails(outcome = "after")
    /\ demo' = [demo EXCEPT !.metrics_manager = "set",
                            !.pc = IF outcome = "ok" THEN "setup_tracing" ELSE "finally",
                            !.failed = outcome # "ok"]
    /\ MainMetrics

\* ObservabilityDemo.setup: self.tracing_manager = TracingManager(config);
\* self.tracing_manager.setup()
DemoSetupTracing(outcome) ==
    /\ demo.pc = "setup_tracing"
    /\ IF outcome = "ok" THEN TracingSetup ELSE TracingSetupFails(outcome = "after")
    /\ demo' = [demo EXCEPT !.tracing_manager = "set",
                            !.pc = IF outcome = "ok" THEN "examples" ELSE "finally",
                            !.failed = outcome # "ok"]
    /\ MainTracing

\* ObservabilityDemo.setup: MetricsExamples(self.metrics_manager), whose
\* constructor creates the example instruments, the request counter first.
DemoExamples ==
    /\ demo.pc = "examples"
    /\ create_counter("n1")
    /\ demo' = [demo EXCEPT !.pc = "run"]
    /\ MainMetrics

\* run_demo: a demo enters its `with self.tracing_manager.start_span(...)`.
DemoEnterSpan ==
    /\ demo.pc = "run"
    /\ \E n \in SpanNames : StartSpan(MainThread, n)
    /\ demo' = [demo EXCEPT !.pc = "body"]
    /\ MainTracing

\* run_comprehensive_demo: web_server_thread.start()
DemoStartThread ==
    /\ demo.pc = "body"
    /\ ~demo.started
    /\ demo' = [demo EXCEPT !.started = TRUE]
    /\ lastCall' = Call("thread_start", 0, "", NoData, "None", "none")
    /\ UNCHANGED metricVars /\ UNCHANGED traceVars

\* A record the main thread makes inside the demo's span.
DemoRecord ==
    /\ demo.pc = "body"
    /\ nrec < MainMaxRecords
    /\ \E o \in 1..Len(objs) : Record(o, Num(1), "GET")
    /\ UNCHANGED demo
    /\ MainMetrics

\* An exception, or KeyboardInterrupt, in the main thread inside the span.
DemoRaise ==
    /\ demo.pc = "body"
    /\ Raise(MainThread)
    /\ demo' = [demo EXCEPT !.pc = "leave"]
    /\ MainTracing

\* web_server_thread.join() when the thread was started, then
\* span.set_attribute(...), the last statement of the block.
DemoJoinAndSetAttribute ==
    /\ demo.pc = "body"
    /\ demo.started => pc[WebThread] = "done"
    /\ \E k \in AttrKeys : SetAttribute(Top(MainThread).span, k)
    /\ demo' = [demo EXCEPT !.pc = "leave"]
    /\ MainTracing

\* The `with start_span` block is left; an exception goes on to run_demo's
\* except clauses.
DemoExitSpan ==
    /\ demo.pc = "leave"
    /\ ExitSpan(MainThread)
    /\ demo' = [demo EXCEPT !.pc = IF raising[MainThread] THEN "except" ELSE "finally"]
    /\ MainTracing

\* run_demo: except KeyboardInterrupt / except Exception: logged, and
\* run_demo returns.
DemoExcept ==
    /\ demo.pc = "except"
    /\ Catch(MainThread)
    /\ demo' = [demo EXCEPT !.pc = "finally"]
    /\ MainTracing

\* main's finally: ObservabilityDemo.shutdown, first half:
\* if self.metrics_manager: self.metrics_manager.shutdown()
DemoShutdownMetrics ==
    /\ demo.pc = "finally"
    /\ IF demo.metrics_manager = "set"
       THEN Shutdown
       ELSE /\ lastCall' = Call("demo_shutdown", 0, "", NoData, "None", "none")
            /\ UNCHANGED <<meter_provider, meter, metrics, objs, sdkInstruments,
                           sdkCallback, sdkSeries, sdkShutdown, shutdownCalls,
                           flushes, ticks, lastBatch, exported, addCalls, nrec,
                           recorded, written, lastGauge>>
    /\ demo' = [demo EXCEPT !.pc = "shutdown_tracing", !.shutdowns = @ + 1]
    /\ MainMetrics

\* ObservabilityDemo.shutdown, second half:
\* if self.tracing_manager: self.tracing_manager.shutdown()
DemoShutdownTracing ==
    /\ demo.pc = "shutdown_tracing"
    /\ IF demo.tracing_manager = "set"
       THEN TracingShutdown
       ELSE /\ lastCall' = Call("demo_shutdown", 0, "", NoData, "None", "none")
            /\ UNCHANGED traceVars
    /\ demo' = [demo EXCEPT !.pc = "exit"]
    /\ MainTracing

\* simulate_web_server_metrics in the started thread: MIncr requests, each
\* a record on the request counter.  Nothing stops the thread but the end
\* of its loop.
WebServerEnter == demo.started /\ ThreadEnter(WebThread)

WebServerAdd == demo.started /\ ThreadAdd(WebThread)

NextMain ==
    \/ DemoSetupInterrupted
    \/ \E outcome \in SetupOutcomes : DemoSetupMetrics(outcome)
    \/ \E outcome \in SetupOutcomes : DemoSetupTracing(outcome)
    \/ DemoExamples
    \/ DemoEnterSpan
    \/ DemoStartThread
    \/ DemoRecord
    \/ DemoRaise
    \/ DemoJoinAndSetAttribute
    \/ DemoExitSpan
    \/ DemoExcept
    \/ DemoShutdownMetrics
    \/ DemoShutdownTracing
    \/ WebServerEnter
    \/ WebServerAdd

SpecMain == Init /\ [][NextMain]_vars

\* ---------------------------------------------------------------- claims
IsRecordOn(c, kind) == c.op = "record" /\ c.obj # 0 /\ objs[c.obj].kind = kind

CounterKeys == {k \in SeriesKeys : k[2] = "counter"}

\* C1: a record of a negative value on a Counter fails with the invalid-value
\* error (ValueError), the snapshot after it equals the snapshot before it
\* and the instrument's add is not invoked.
C1_NegativeCounterRejected ==
    [][(IsRecordOn(lastCall', "counter") /\ IsNeg(lastCall'.value))
         => /\ lastCall'.err = "ValueError"
            /\ Snapshot' = Snapshot
            /\ addCalls' = addCalls
            /\ objs' = objs]_vars

C1_Witness ==
    /\ IsRecordOn(lastCall, "counter")
    /\ IsNeg(lastCall.value)
    /\ lastCall.err = "ValueError"
    /\ \E k \in CounterKeys : k[1] = lastCall.name /\ sdkSeries[k] # NoData

NeverCreated(n) == \A o \in 1..Len(objs) : objs[o].name # n

FirstCreated(n) ==
    IF NeverCreated(n) THEN 0
    ELSE CHOOSE o \in 1..Len(objs) :
             /\ objs[o].name = n
             /\ \A p \in 1..Len(objs) : objs[p].name = n => o <= p

\* C3: names are unique with creation-once semantics: no two instruments
\* were ever created under one name (a create on an existing name fails or
\* returns the existing instrument), and the registry entry of a name is the
\* instrument first created under it.
C3_CreationOnce ==
    /\ \A o, p \in 1..Len(objs) : objs[o].name = objs[p].name => o = p
    /\ \A n \in Names : metrics[n] = FirstCreated(n)

\* C4: the sum a snapshot reports for a Counter series is the arithmetic sum
\* of every value recorded on it since it was created, whatever export
\* ticks came between, and no exported batch reports more than that.
C4_CounterCumulativeSum ==
    /\ \A k \in CounterKeys : Snapshot.series[k] = recorded[k]
    /\ lastBatch # NoData =>
          \A k \in CounterKeys :
              \/ lastBatch.data.series[k] = NoData
              \/ /\ recorded[k] # NoData
                 /\ NumLeq(lastBatch.data.series[k].sum, recorded[k].sum)

C4_Witness ==
    /\ ticks > 0
    /\ \E k \in CounterKeys :
          /\ lastBatch.data.series[k] # NoData
          /\ lastBatch.data.series[k].sum = Num(1)
          /\ recorded[k].sum = Num(2)
          /\ Snapshot.series[k].sum = Num(2)

Gauges == {o \in 1..Len(objs) : objs[o].kind = "gauge"}

GaugeSeries(n, a) == IF a = "{}" THEN Snapshot.gauges[n] ELSE NoData

\* C6: attribute-set identity determines series identity for every kind:
\* each attribute set recorded on an instrument has its own series, holding
\* the fold of exactly the measurements recorded with that attribute set
\* (the sum for the additive kinds, the latest value written for a gauge).
C6_AttributeSetIdentity ==
    /\ \A k \in SeriesKeys : Snapshot.series[k] = recorded[k]
    /\ \A o \in Gauges : \A a \in AttrSets :
          written[o][a] # NoData =>
              GaugeSeries(objs[o].name, a) = Float(written[o][a])

\* C7: after shutdown has completed, every record call fails and changes no
\* series state.
C7_RecordAfterShutdownFails ==
    [][(lastCall'.op = "record" /\ sdkShutdown)
         => /\ lastCall'.err # "none"
            /\ UNCHANGED <<sdkSeries, objs>>]_vars

IsSecondShutdown(c) == c.op = "shutdown" /\ sdkShutdown

\* C8 as stated: a second shutdown is a no-op: no second flush or export, no
\* second invocation of the provider's shutdown, no error, still stopped.
C8_SecondShutdownNoOp ==
    [][IsSecondShutdown(lastCall')
         => /\ lastCall'.err = "none"
            /\ UNCHANGED <<sdkShutdown, flushes, lastBatch, shutdownCalls>>]_vars

\* C8, amended: a second shutdown performs no second flush or export, raises
\* no error and leaves the provider stopped and every series as it was, but
\* it does invoke the provider's shutdown once more.
C8_SecondShutdownReinvokesProvider ==
    [][IsSecondShutdown(lastCall')
         => /\ lastCall'.err = "none"
            /\ UNCHANGED <<sdkShutdown, flushes, lastBatch, sdkSeries, objs,
                           metrics, meter_provider, meter>>
            /\ shutdownCalls' = shutdownCalls + 1]_vars

C8_Witness ==
    /\ lastCall.op = "shutdown"
    /\ shutdownCalls = 2
    /\ flushes = 1
    /\ sdkShutdown
    /\ nrec > 0

\* C9: the batch of the final flush holds every measurement whose record
\* call returned before shutdown was invoked: the sum (and count) of each
\* additive series, the latest value of each registered gauge.
C9_FinalFlushHoldsEveryMeasurement ==
    (lastCall.op = "shutdown" /\ shutdownCalls = 1) =>
        /\ lastBatch # NoData /\ lastBatch.final
        /\ \A k \in SeriesKeys : lastBatch.data.series[k] = recorded[k]
        /\ \A n \in Names :
              (metrics[n] \in Gauges /\ lastGauge[metrics[n]] # NoData) =>
                  lastBatch.data.gauges[n] = Float(lastGauge[metrics[n]])

RECURSIVE SumCnt(_)
SumCnt(T) == IF T = {} THEN 0 ELSE LET t == CHOOSE x \in T : TRUE
                                   IN  cnt[t] + SumCnt(T \ {t})

ThreadSeries == <<"n1", "counter", ThreadAttrs>>

SumOf(x) == IF x = NoData THEN Num(0) ELSE x.sum

IsTick(c) == c.op = "tick" /\ ticks' = ticks + 1

SpanIds == 1..Len(spans)

InScope(s) == \E t \in Threads : \E i \in 1..Len(scopes[t]) : scopes[t][i].span = s

Occurrences(q, x) == Cardinality({i \in 1..Len(q) : q[i] = x})

\* The innermost span a thread's blocks hold open, 0 when it is in no block.
Innermost(t) == IF scopes[t] = << >> THEN 0 ELSE Top(t).span

IsSetAttribute(c) == c.op = "set_attribute"

\* C13: set_attribute on a span that has ended fails with an error and leaves
\* the span's attribute set unchanged.
C13_SetAttributeAfterEndFails ==
    [][(IsSetAttribute(lastCall') /\ ~spans[lastCall'.obj].open)
         => /\ lastCall'.err # "none"
            /\ spans' = spans]_vars

\* C14: before setup() has run, every create_counter / create_histogram /
\* create_gauge / create_up_down_counter call, and get_meter, get_tracer and
\* start_span, fails with RuntimeError; a failed create leaves the registry
\* as it was: no name is registered, get_metric(name) still returns None and
\* list_metrics() is unchanged (and empty, nothing being creatable earlier).
C14_NotInitialized ==
    /\ [](meter = "None" => DOMAIN ListMetrics = {} /\ objs = << >>)
    /\ [](tracer = "None" => spans = << >>)
    /\ [][(lastCall'.op = "create" /\ meter = "None")
            => /\ lastCall'.err = "RuntimeError"
               /\ lastCall'.attrs \in Kinds
               /\ metrics'[lastCall'.name] = 0
               /\ ListMetrics' = ListMetrics
               /\ UNCHANGED <<metrics, objs, sdkInstruments, sdkCallback,
                              sdkSeries, meter, meter_provider>>]_vars
    /\ [][(lastCall'.op = "get_meter" /\ meter = "None")
            => lastCall'.err = "RuntimeError" /\ UNCHANGED metricVars]_vars
    /\ [][(lastCall'.op \in {"get_tracer", "start_span"} /\ tracer = "None")
            => lastCall'.err = "RuntimeError" /\ UNCHANGED traceVars]_vars

C14_Witness ==
    /\ lastCall.op = "create"
    /\ lastCall.err = "RuntimeError"
    /\ lastCall.attrs = "gauge"
    /\ meter = "None"
    /\ tracer = "set"
    /\ Len(spans) = 1
    /\ GetMetric(lastCall.name) = 0
    /\ DOMAIN ListMetrics = {}

\* C15: in main's life cycle shutdown runs exactly once on every path out of
\* setup / run_demo, it shuts metrics down before tracing, it shuts down a
\* provider exactly when setup created it (a manager without one is skipped
\* without error), and no measurement is recorded and no span opened once
\* shutdown has begun.
C15_MainLifecycle ==
    /\ [](demo.shutdowns <= 1)
    /\ [](demo.pc = "exit" =>
            /\ demo.shutdowns = 1
            /\ shutdownCalls = IF meter_provider = "set" THEN 1 ELSE 0
            /\ tracerShutdowns = IF tracer_provider = "set" THEN 1 ELSE 0)
    /\ []((tracerShutdowns > 0 /\ meter_provider = "set") => sdkShutdown)
    /\ [](lastCall.op \in {"shutdown", "tracing_shutdown", "demo_shutdown"}
            => lastCall.err = "none")
    /\ [][(nrec' # nrec \/ addCalls' # addCalls \/ Len(spans') # Len(spans))
            => demo.shutdowns = 0]_vars

====
